---------------------------- MODULE Spec2Model ----------------------------
(***************************************************************************)
(* A model of src/utils/preprocess.py: the FeatureEngineeringCLI pipeline  *)
(* (perform_eda and the stages it calls), the artifacts it keeps on the    *)
(* instance and on storage, and the entry point NDF that builds a fresh    *)
(* instance per call.                                                      *)
(*                                                                         *)
(* Conventions of the model                                                *)
(*   - a Python str that the code inspects (a label) is a sequence of      *)
(*     one-character strings, so that split(":") and startswith are        *)
(*     computed and not assumed;                                           *)
(*   - None is <<>> and a present value v is <<v>>;                        *)
(*   - a DataFrame is [columns, dtypes, rows], a row is [idx, val], a      *)
(*     Series is a sequence of [idx, val];                                 *)
(*   - a number is an integer in units of 1/Scale (fixed point), so that   *)
(*     probabilities and scaled values are representable;                  *)
(*   - an exception is [type, by, stage]; by = "pipeline" for a raise      *)
(*     statement of preprocess.py, "runtime" for one raised by the         *)
(*     interpreter or a library under it.                                  *)
(***************************************************************************)
EXTENDS Integers, Sequences, FiniteSets, TLC

\* ------------------------------------------------------------------ bounds
\* Rows of one generated source table (benign or malign file).
MaxFileRows == 3
\* Largest raw value of a generated numeric cell.
MaxVal == 2
\* Calls (constructor, perform_eda, save_borders) made in one process.
MaxCalls == 2
\* Leading rows that the seedless shuffle of line 365 may permute.
MaxShuffle == 2

\* Fixed-point unit: a number v of the program is the integer v * Scale.
Scale == 10 * 10

None == <<>>
Some(v) == <<v>>
IsNone(o) == o = <<>>
Get(o) == o[1]

Range(s) == {s[i] : i \in 1..Len(s)}

RECURSIVE SeqSum(_)
SeqSum(s) == IF s = <<>> THEN 0 ELSE Head(s) + SeqSum(Tail(s))

RECURSIVE SelectIdx(_, _, _)
\* The subsequence of s at the positions i with Keep(i), in order.
SelectIdx(s, keep, i) ==
    IF i > Len(s) THEN <<>>
    ELSE (IF i \in keep THEN <<s[i]>> ELSE <<>>) \o SelectIdx(s, keep, i + 1)


\* ----------------------------------------------------------------- strings
Alphabet ==
    << ":", "_", "a", "b", "c", "d", "e", "f", "g", "h", "i", "j", "k", "l",
       "m", "n", "o", "p", "q", "r", "s", "t", "u", "v", "w", "x", "y", "z" >>

CharRank(c) == CHOOSE i \in 1..Len(Alphabet) : Alphabet[i] = c

\* str.startswith
StartsWith(s, p) == Len(s) >= Len(p) /\ SubSeq(s, 1, Len(p)) = p

RECURSIVE SplitFrom(_, _, _, _)
SplitFrom(s, sep, i, cur) ==
    IF i > Len(s) THEN <<cur>>
    ELSE IF s[i] = sep THEN <<cur>> \o SplitFrom(s, sep, i + 1, <<>>)
    ELSE SplitFrom(s, sep, i + 1, Append(cur, s[i]))

\* str.split(sep) for a one-character separator
Split(s, sep) == SplitFrom(s, sep, 1, <<>>)

\* Python's < on str
RECURSIVE StrLess(_, _)
StrLess(a, b) ==
    IF b = <<>> THEN FALSE
    ELSE IF a = <<>> THEN TRUE
    ELSE IF Head(a) = Head(b) THEN StrLess(Tail(a), Tail(b))
    ELSE CharRank(Head(a)) < CharRank(Head(b))

\* The prefixes the label policies test (lines 449-475).
P_benign == <<"b", "e", "n", "i", "g", "n">>
P_dga == <<"d", "g", "a">>
P_malware == <<"m", "a", "l", "w", "a", "r", "e">>
P_misp == <<"m", "i", "s", "p">>
P_phishing == <<"p", "h", "i", "s", "h", "i", "n", "g">>

\* Label strings of the generated tables.
L_benign_x == P_benign \o <<":", "x">>
L_benign == P_benign
L_dga_foo == P_dga \o <<":", "f", "o", "o">>
L_malware_a == P_malware \o <<":", "a">>
L_misp_b == P_misp \o <<":", "b">>
L_unknown == <<"u", "n", "k", "n", "o", "w", "n", "_", "s", "o", "u", "r", "c", "e", ":", "x">>
L_be == <<"b", "e">>
L_dga_bar_v == P_dga \o <<":", "b", "a", "r", ":", "v">>
L_dga_bar == P_dga \o <<":", "b", "a", "r">>


\* ------------------------------------------------------------------ tables
\* line 378
categorical_features ==
    << "geo_continent_hash", "geo_countries_hash", "rdap_registrar_name_hash",
       "tls_root_authority_hash", "tls_leaf_authority_hash", "lex_tld_hash" >>

\* lines 77-97
nontraining_fields ==
    { "dns_evaluated_on", "rdap_evaluated_on", "tls_evaluated_on", "ip_data",
      "countries", "latitudes", "longitudes", "dns_dnssec",
      "dns_zone_dnskey_selfsign_ok", "dns_email_extras", "dns_ttls", "dns_zone",
      "dns_zone_SOA", "dns_A", "dns_AAAA", "dns_CNAME", "dns_MX", "dns_NS",
      "dns_SOA", "dns_TXT", "rdap_registration_date", "rdap_last_changed_date",
      "rdap_expiration_date", "rdap_dnssec", "rdap_entities" }

\* Column names as character sequences, where the code tests their prefix.
ColumnChars(c) ==
    CASE c = "lex_len" -> <<"l", "e", "x", "_", "l", "e", "n">>
      [] c = "lex_tld_hash" -> <<"l", "e", "x", "_", "t", "l", "d">>
      [] c = "label" -> <<"l", "a", "b", "e", "l">>
      [] c = "domain_name" -> <<"d", "o", "m", "a", "i", "n">>
      [] c = "dtree_prob" -> <<"d", "t", "r", "e", "e">>
      [] c = "ip_data" -> <<"i", "p">>
      [] c = "tls_has_tls" -> <<"t", "l", "s">>
      [] c = "rdap_age" -> <<"r", "d", "a", "p">>
      [] c = "geo_continent_hash" -> <<"g", "e", "o">>
      [] c = "geo_countries_hash" -> <<"g", "e", "o">>
      [] c = "rdap_registrar_name_hash" -> <<"r", "d", "a", "p">>
      [] c = "tls_root_authority_hash" -> <<"t", "l", "s">>
      [] c = "tls_leaf_authority_hash" -> <<"t", "l", "s">>

\* col.startswith('lex'), line 314
IsLex(c) == StartsWith(ColumnChars(c), <<"l", "e", "x">>)

\* The columns of a raw telemetry table, in file order.
RawColumns ==
    << "domain_name", "label", "ip_data", "tls_has_tls", "rdap_age", "lex_len" >>
    \o categorical_features

\* A missing numeric cell (NaN); fillna(-1) replaces it at line 498.
NaN == 0 - 1000000

RawDtype(c) ==
    IF c \in {"domain_name", "label", "ip_data"} THEN "object"
    ELSE IF c = "tls_has_tls" THEN "bool"
    ELSE "number"

\* One raw record: its label, a lexical length x and a category c.
RawRow(lab, x, c) ==
    [col \in Range(RawColumns) |->
        CASE col = "domain_name" -> "d"
          [] col = "label" -> lab
          [] col = "ip_data" -> "ip"
          [] col = "tls_has_tls" -> (c = 1)
          [] col = "rdap_age" -> (IF c = 1 THEN NaN ELSE x * Scale)
          [] col = "lex_len" -> x * Scale
          [] col = "lex_tld_hash" -> x * Scale
          [] OTHER -> c * Scale]

\* A DataFrame with a fresh RangeIndex 0..n-1 over the given row values.
Frame(cols, dtypes, vals) ==
    [columns |-> cols,
     dtypes |-> dtypes,
     rows |-> [i \in 1..Len(vals) |-> [idx |-> i - 1, val |-> vals[i]]]]

RawFrame(vals) ==
    Frame(RawColumns, [c \in Range(RawColumns) |-> RawDtype(c)], vals)

NRows(df) == Len(df.rows)
HasColumn(df, c) == c \in Range(df.columns)

\* df[cols] / table.select(cols): the named columns, in the order given.
SelectColumns(df, cols) ==
    [columns |-> cols,
     dtypes |-> [c \in Range(cols) |-> df.dtypes[c]],
     rows |-> [i \in 1..Len(df.rows) |->
                 [idx |-> df.rows[i].idx,
                  val |-> [c \in Range(cols) |-> df.rows[i].val[c]]]]]

\* df.drop(columns=...): the other columns, order kept.
DropColumns(df, drop) ==
    SelectColumns(df, SelectSeq(df.columns, LAMBDA c : c \notin drop))

\* df[name] = values (one per row): replaces the column or appends it.
SetColumn(df, name, dtype, values) ==
    LET cols == IF name \in Range(df.columns) THEN df.columns
                ELSE Append(df.columns, name)
    IN [columns |-> cols,
        dtypes |-> [c \in Range(cols) |-> IF c = name THEN dtype ELSE df.dtypes[c]],
        rows |-> [i \in 1..Len(df.rows) |->
                    [idx |-> df.rows[i].idx,
                     val |-> [c \in Range(cols) |->
                                IF c = name THEN values[i] ELSE df.rows[i].val[c]]]]]

\* df[name] as a Series
Column(df, name) ==
    [i \in 1..Len(df.rows) |-> [idx |-> df.rows[i].idx, val |-> df.rows[i].val[name]]]

Values(series) == [i \in 1..Len(series) |-> series[i].val]

\* df.select_dtypes(include=[np.number]).columns
NumericColumns(df) == SelectSeq(df.columns, LAMBDA c : df.dtypes[c] = "number")

\* df.drop(index_labels): the rows whose index label is not dropped.
DropRows(rows, labels) == SelectSeq(rows, LAMBDA r : r.idx \notin labels)

\* pa.concat_tables / to_pandas: rows of a then rows of b, fresh RangeIndex.
Concat(a, b) ==
    Frame(a.columns, a.dtypes, Values(a.rows) \o Values(b.rows))


\* ----------------------------------------------------------------- numbers
RECURSIVE Insert(_, _)
Insert(x, s) ==
    IF s = <<>> THEN <<x>>
    ELSE IF x <= Head(s) THEN <<x>> \o s
    ELSE <<Head(s)>> \o Insert(x, Tail(s))

RECURSIVE Sort(_)
Sort(s) == IF s = <<>> THEN <<>> ELSE Insert(Head(s), Sort(Tail(s)))

RECURSIVE SqrtBetween(_, _, _)
\* The largest r in lo..hi with r * r <= d (bisection).
SqrtBetween(d, lo, hi) ==
    IF lo >= hi THEN lo
    ELSE LET mid == (lo + hi + 1) \div 2
         IN IF mid * mid <= d THEN SqrtBetween(d, mid, hi)
            ELSE SqrtBetween(d, lo, mid - 1)

\* floor(sqrt(d)), d < 2^30
ISqrt(d) == SqrtBetween(d, 0, 32767)

SumOf(xs) == SeqSum(xs)
SumSq(xs) == SeqSum([i \in 1..Len(xs) |-> xs[i] * xs[i]])
\* n * sum(x^2) - sum(x)^2 = n^2 * (population variance)
Dev(n, sm, sq) == n * sq - sm * sm

\* np.percentile(xs, 100 * num / den), linear interpolation; xs not empty
Quantile(xs, num, den) ==
    LET sorted == Sort(xs)
        h == num * (Len(xs) - 1)
        lo == h \div den
        rem == h % den
    IN IF rem = 0 THEN sorted[lo + 1]
       ELSE sorted[lo + 1] + ((sorted[lo + 2] - sorted[lo + 1]) * rem) \div den

\* Internal unit of the exponential series.
Fine == 100 * Scale

RECURSIVE ExpSeries(_, _)
\* 1 - y/k * (1 - y/(k+1) * (...)) in units of 1/Fine, seven terms of e^{-y}
ExpSeries(y, k) ==
    IF k > 7 THEN Fine
    ELSE Fine - (y * ExpSeries(y, k + 1)) \div (k * Fine)

\* 1 / (1 + np.exp(-x)), line 240, for x in units of 1/Scale, 0 <= x <= Scale
Sigmoid(x) ==
    (Scale * Fine) \div (Fine + ExpSeries(x * (Fine \div Scale), 1))


\* ------------------------------------------------------------ border store
\* The world an operation acts on: the instance (self), the files under
\* models/ (disk), and the number of joblib.dump calls per file (writes).

\* save_borders with the scaler branch never setting its saved-flag
save_borders_unflagged(w) ==
    LET w1 == IF ~IsNone(w.self.scaler) /\ ~w.self.scaler_saved
              THEN [w EXCEPT !.disk.scaler = w.self.scaler,
                             !.writes.process.scaler = @ + 1,
                             !.writes.instance.scaler = @ + 1]
              ELSE w
    IN IF ~IsNone(w1.self.outliers) /\ ~w1.self.outliers_saved
       THEN [w1 EXCEPT !.disk.outliers = w1.self.outliers,
                       !.writes.process.outliers = @ + 1,
                       !.writes.instance.outliers = @ + 1,
                       !.self.outliers_saved = TRUE]
       ELSE w1

\* lines 136-150
save_borders(w) ==
    LET w1 == IF ~IsNone(w.self.scaler) /\ ~w.self.scaler_saved
              THEN [w EXCEPT !.disk.scaler = w.self.scaler,
                             !.writes.process.scaler = @ + 1,
                             !.writes.instance.scaler = @ + 1,
                             !.self.scaler_saved = TRUE]
              ELSE w
    IN IF ~IsNone(w1.self.outliers) /\ ~w1.self.outliers_saved
       THEN [w1 EXCEPT !.disk.outliers = w1.self.outliers,
                       !.writes.process.outliers = @ + 1,
                       !.writes.instance.outliers = @ + 1,
                       !.self.outliers_saved = TRUE]
       ELSE w1

\* lines 152-160
load_borders(w) ==
    LET w1 == IF ~IsNone(w.disk.scaler)
              THEN [w EXCEPT !.self.scaler = w.disk.scaler] ELSE w
    IN IF ~IsNone(w1.disk.outliers)
       THEN [w1 EXCEPT !.self.outliers = w1.disk.outliers] ELSE w1

\* lines 162-166
save_model(w) ==
    IF ~IsNone(w.self.model)
    THEN [w EXCEPT !.disk.model = w.self.model, !.writes.process.model = @ + 1,
                   !.writes.instance.model = @ + 1]
    ELSE w

\* lines 168-172
load_model(w) ==
    IF ~IsNone(w.disk.model) THEN [w EXCEPT !.self.model = w.disk.model] ELSE w

\* An exception leaving an operation.
NoErr == [type |-> "", by |-> "", stage |-> ""]
Err(type, by, stage) == [type |-> type, by |-> by, stage |-> stage]
Raised(e) == e.type # ""

\* ----------------------------------------------------------------- scalers
ColumnValues(df, c) == [i \in 1..Len(df.rows) |-> df.rows[i].val[c]]

\* What fit() keeps of one column: the moments, the extremes, the quartiles.
FitColumn(xs) ==
    [n |-> Len(xs), sm |-> SumOf(xs), sq |-> SumSq(xs),
     min |-> Sort(xs)[1], max |-> Sort(xs)[Len(xs)],
     q1 |-> Quantile(xs, 1, 4), q2 |-> Quantile(xs, 1, 2), q3 |-> Quantile(xs, 3, 4)]

\* StandardScaler / MinMaxScaler / RobustScaler .fit on the numeric columns
Fit(kind, df, cols) ==
    [kind |-> kind,
     columns |-> cols,
     params |-> [c \in Range(cols) |-> FitColumn(ColumnValues(df, c))]]

\* The estimator as constructed, before fit() (lines 228, 231, 234, 237).
Unfitted(kind) == [kind |-> kind, columns |-> <<>>, params |-> <<>>]

\* scaler.transform of one cell; a zero scale is replaced by 1 (sklearn)
TransformCell(kind, p, x) ==
    CASE kind = "StandardScaler" ->
            LET d == Dev(p.n, p.sm, p.sq)
            IN IF ISqrt(d) = 0 THEN (p.n * x - p.sm) \div p.n
               ELSE (Scale * (p.n * x - p.sm)) \div ISqrt(d)
      [] kind = "MinMaxScaler" ->
            IF p.max = p.min THEN x - p.min
            ELSE (Scale * (x - p.min)) \div (p.max - p.min)
      [] kind = "RobustScaler" ->
            IF p.q3 = p.q1 THEN x - p.q2
            ELSE (Scale * (x - p.q2)) \div (p.q3 - p.q1)

\* scaler.transform(numeric_df): one row of cells per input row
Transform(scaler, df, cols) ==
    [i \in 1..Len(df.rows) |->
        [c \in Range(cols) |->
            TransformCell(scaler.kind, scaler.params[c], df.rows[i].val[c])]]

\* scaler.transform validates its input against what fit() saw (sklearn):
\* at least one row, and the same feature names in the same order.
TransformAccepts(scaler, df, cols) ==
    Len(df.rows) > 0 /\ cols = scaler.columns

\* fit validates its input: at least one row and one column (sklearn).
FitAccepts(df, cols) == Len(df.rows) > 0 /\ Len(cols) > 0

ScalerTypes ==
    {"StandardScaler", "MinMaxScaler", "RobustScaler", "MinMaxScaler + Sigmoid"}

\* The estimator each scaler_type constructs, lines 227-238.
ScalerClass(scaler_type) ==
    IF scaler_type = "MinMaxScaler + Sigmoid" THEN "MinMaxScaler" ELSE scaler_type

\* lines 248-255: scaled numeric columns first, then the other columns.
MergeScaled(df, cols, cells) ==
    LET rest == SelectSeq(df.columns, LAMBDA c : c \notin Range(cols))
        out == cols \o rest
    IN [columns |-> out,
        dtypes |-> [c \in Range(out) |-> df.dtypes[c]],
        rows |-> [i \in 1..Len(df.rows) |->
                    [idx |-> df.rows[i].idx,
                     val |-> [c \in Range(out) |->
                                IF c \in Range(cols) THEN cells[i][c]
                                ELSE df.rows[i].val[c]]]]]

\* apply_scaling, lines 222-255.  Returns [w, df, err, scaler_in]: the world
\* after the call, the returned frame, the exception if one left the call,
\* and the columns handed to the scaler.
apply_scaling(w, df, scaler_type) ==
    LET numeric == NumericColumns(df)
        fail(w1, type, by) ==
            [w |-> w1, df |-> df, err |-> Err(type, by, "apply_scaling"),
             scaler_in |-> Some(numeric)]
    IN IF ~w.self.one_line_processing
       THEN IF scaler_type \notin ScalerTypes
            THEN fail(w, "ValueError", "pipeline")
            ELSE IF ~FitAccepts(df, numeric)
            THEN fail([w EXCEPT !.self.scaler =
                          Some(Unfitted(ScalerClass(scaler_type)))],
                      "ValueError", "runtime")
            ELSE LET scaler == Fit(ScalerClass(scaler_type), df, numeric)
                     plain == Transform(scaler, df, numeric)
                     cells == IF scaler_type = "MinMaxScaler + Sigmoid"
                              THEN [i \in 1..Len(plain) |->
                                      [c \in Range(numeric) |-> Sigmoid(plain[i][c])]]
                              ELSE plain
                     w1 == save_borders([w EXCEPT !.self.scaler = Some(scaler)])
                 IN [w |-> w1, df |-> MergeScaled(df, numeric, cells),
                     err |-> NoErr, scaler_in |-> Some(numeric)]
       ELSE LET w1 == load_borders(w)
            IN IF IsNone(w1.self.scaler)
               THEN fail(w1, "AttributeError", "runtime")
               ELSE IF ~TransformAccepts(Get(w1.self.scaler), df, numeric)
               THEN fail(w1, "ValueError", "runtime")
               ELSE [w |-> w1,
                     df |-> MergeScaled(df, numeric,
                                Transform(Get(w1.self.scaler), df, numeric)),
                     err |-> NoErr, scaler_in |-> Some(numeric)]


\* ---------------------------------------------------------- outlier filter
\* A pair (mean - k * std, mean + k * std) of line 280 is kept as the moments
\* it is computed from: n values, their sum sm, their sum of squares sq.
\* Series.mean() and Series.std() skip missing cells; std() is the sample
\* deviation (ddof = 1), NaN for fewer than two values.
Bound(xs, k) ==
    LET present == SelectSeq(xs, LAMBDA x : x # NaN)
    IN [n |-> Len(present), sm |-> SumOf(present), sq |-> SumSq(present), k |-> k]

\* Either end of the pair is NaN: every comparison with it is False.
IsNaNBound(b) == b.n < 2

\* value < lower_bound, exactly: mean - value > k * std
BelowLower(v, b) ==
    /\ ~IsNaNBound(b) /\ v # NaN
    /\ b.sm - b.n * v > 0
    /\ (b.sm - b.n * v) * (b.sm - b.n * v) * (b.n - 1)
          > b.k * b.k * b.n * Dev(b.n, b.sm, b.sq)

\* value > upper_bound, exactly: value - mean > k * std
AboveUpper(v, b) ==
    /\ ~IsNaNBound(b) /\ v # NaN
    /\ b.n * v - b.sm > 0
    /\ (b.n * v - b.sm) * (b.n * v - b.sm) * (b.n - 1)
          > b.k * b.k * b.n * Dev(b.n, b.sm, b.sq)

\* lower_bound <= value <= upper_bound, exactly
WithinBounds(v, b) ==
    ~IsNaNBound(b) /\ v # NaN /\ ~BelowLower(v, b) /\ ~AboveUpper(v, b)

\* line 295 with only the upper comparison
outlier_condition_upper_only(v, b) == AboveUpper(v, b)

\* line 295 with only the lower comparison
outlier_condition_lower_only(v, b) == BelowLower(v, b)

\* line 295
outlier_condition(v, b) == BelowLower(v, b) \/ AboveUpper(v, b)

\* lines 280-282: thresholds of every numeric column of features
ComputeOutliers(features, k) ==
    LET cols == NumericColumns(features)
    IN [columns |-> cols,
        bounds |-> [c \in Range(cols) |-> Bound(ColumnValues(features, c), k)]]

IndexSet(rows) == {rows[i].idx : i \in 1..Len(rows)}

RECURSIVE DropOutliers(_, _, _, _)
\* lines 291-304: one column of self.outliers at a time, on what is left.
\* Returns [features, labels, err, steps]; steps lists, per column visited,
\* the index labels left in features and in labels.
DropOutliers(outliers, i, features, labels) ==
    IF i > Len(outliers.columns)
    THEN [features |-> features, labels |-> labels, err |-> NoErr, steps |-> <<>>]
    ELSE LET column == outliers.columns[i]
         IN IF ~HasColumn(features, column)
            THEN DropOutliers(outliers, i + 1, features, labels)
            ELSE LET b == outliers.bounds[column]
                     outlier_indices ==
                        {features.rows[j].idx : j \in
                            {j \in 1..Len(features.rows) :
                                outlier_condition(features.rows[j].val[column], b)}}
                     f1 == [features EXCEPT !.rows = DropRows(@, outlier_indices)]
                 IN IF ~(outlier_indices \subseteq IndexSet(labels))
                    THEN [features |-> f1, labels |-> labels,
                          err |-> Err("KeyError", "runtime", "remove_outliers"),
                          steps |-> <<>>]
                    ELSE LET l1 == DropRows(labels, outlier_indices)
                             rest == DropOutliers(outliers, i + 1, f1, l1)
                         IN [rest EXCEPT !.steps =
                                <<[column |-> column,
                                   features |-> [j \in 1..Len(f1.rows) |-> f1.rows[j].idx],
                                   labels |-> [j \in 1..Len(l1) |-> l1[j].idx]]>> \o @]

\* remove_outliers, lines 277-307.  Returns [w, features, labels, err, steps].
remove_outliers(w, features, labels, std_multiplier) ==
    LET w1 == IF ~w.self.one_line_processing
              THEN save_borders([w EXCEPT !.self.outliers =
                                    Some(ComputeOutliers(features, std_multiplier))])
              ELSE load_borders(w)
    IN IF IsNone(w1.self.outliers) \/ Get(w1.self.outliers).columns = <<>>
       THEN [w |-> w1, features |-> features, labels |-> labels,
             err |-> Err("ValueError", "pipeline", "remove_outliers"),
             steps |-> <<>>]
       ELSE LET r == DropOutliers(Get(w1.self.outliers), 1, features, labels)
            IN [w |-> w1, features |-> r.features, labels |-> r.labels,
                err |-> r.err, steps |-> r.steps]


\* ------------------------------------------------------------ label mapper
RECURSIVE UniqueFrom(_, _, _)
UniqueFrom(xs, i, seen) ==
    IF i > Len(xs) THEN <<>>
    ELSE IF xs[i] \in seen THEN UniqueFrom(xs, i + 1, seen)
    ELSE <<xs[i]>> \o UniqueFrom(xs, i + 1, seen \cup {xs[i]})

\* Series.unique(): the distinct values in order of first appearance
Unique(xs) == UniqueFrom(xs, 1, {})

\* label.split(":")[0] + ":" + label.split(":")[1] is evaluated (lines 448,
\* 457): an IndexError for a label without a separator.
Cleanable(label) == Len(Split(label, ":")) >= 2
cleaned_label(label) == Split(label, ":")[1] \o <<":">> \o Split(label, ":")[2]

\* The family table of .dga_mapping (line 50): family id -> "family:name".
dga_class_map == [k \in {0, 1} |-> IF k = 0 THEN L_dga_foo ELSE L_dga_bar]

\* lines 446-452.  A class map is a function on the labels it has an entry
\* for; the result is [class_map, err].
binary_class_map(unique_labels) ==
    IF unique_labels # <<>> /\ \E l \in Range(unique_labels) : ~Cleanable(l)
    THEN [class_map |-> <<>>, err |-> Err("IndexError", "runtime", "class_map")]
    ELSE [class_map |->
             [l \in {l \in Range(unique_labels) :
                        StartsWith(l, P_benign) \/ StartsWith(l, P_dga)} |->
                 IF StartsWith(l, P_benign) THEN 0 ELSE 1],
          err |-> NoErr]

\* lines 455-460
multiclass_class_map(unique_labels) ==
    IF \E l \in Range(unique_labels) : ~Cleanable(l)
    THEN [class_map |-> <<>>, err |-> Err("IndexError", "runtime", "class_map")]
    ELSE [class_map |->
             [l \in {l \in Range(unique_labels) :
                        \E k \in DOMAIN dga_class_map :
                            dga_class_map[k] = cleaned_label(l)} |->
                 CHOOSE k \in DOMAIN dga_class_map :
                     dga_class_map[k] = cleaned_label(l)],
          err |-> NoErr]

\* lines 466-475
generic_class_map(unique_labels) ==
    [class_map |->
        [l \in {l \in Range(unique_labels) :
                   \/ StartsWith(l, P_benign) \/ StartsWith(l, P_malware)
                   \/ StartsWith(l, P_misp) \/ StartsWith(l, P_phishing)} |->
            IF StartsWith(l, P_benign) THEN 0 ELSE 1],
     err |-> NoErr]

\* lines 446-475
build_class_map(dga, unique_labels) ==
    IF dga = "binary" THEN binary_class_map(unique_labels)
    ELSE IF dga = "multiclass" THEN multiclass_class_map(unique_labels)
    ELSE generic_class_map(unique_labels)

\* line 479 with the result on an index of its own, counted from 1
map_labels_reindexed(class_map, labels) ==
    [i \in 1..Len(labels) |->
        [idx |-> i,
         val |-> IF labels[i].val \in DOMAIN class_map
                 THEN class_map[labels[i].val] ELSE -1]]

\* line 479: class_map.get(x, -1) over the label column
map_labels(class_map, labels) ==
    [i \in 1..Len(labels) |->
        [idx |-> labels[i].idx,
         val |-> IF labels[i].val \in DOMAIN class_map
                 THEN class_map[labels[i].val] ELSE -1]]


\* ------------------------------------------- categorical probability encoder
\* The categorical tuple of a row: the one-hot encoder's input.
CatTuple(val) == [i \in 1..Len(categorical_features) |-> val[categorical_features[i]]]

Count(xs, x) == Cardinality({i \in 1..Len(xs) : xs[i] = x})

CeilDiv(a, b) == (a + b - 1) \div b

\* test_size = 0.2 (line 393): n_test = ceil(0.2 * n), n_train = n - n_test
NTest(n) == CeilDiv(2 * n, 10)
NTrain(n) == n - NTest(n)

\* What train_test_split(..., stratify=labels) refuses (sklearn): an empty
\* train set, a class with a single member, fewer train or test rows than
\* classes.
SplitAccepts(ys) ==
    LET n == Len(ys)
        classes == Range(ys)
    IN /\ n > 0 /\ NTrain(n) > 0
       /\ \A c \in classes : Count(ys, c) >= 2
       /\ NTrain(n) >= Cardinality(classes)
       /\ NTest(n) >= Cardinality(classes)

\* The train partitions a stratified shuffle split can draw: n_train rows,
\* each class represented in proportion, the remainders going to the classes
\* with the largest fractional parts (sklearn's _approximate_mode).  Which
\* rows of a class are drawn depends on the permutation of random_state=42
\* over a table whose order was itself shuffled without a seed.
TrainPartitions(ys) ==
    LET n == Len(ys)
        nt == NTrain(n)
        floor(c) == (Count(ys, c) * nt) \div n
        rem(c) == (Count(ys, c) * nt) % n
        taken(tr, c) == Cardinality({i \in tr : ys[i] = c})
    IN {tr \in SUBSET (1..n) :
          /\ Cardinality(tr) = nt
          /\ \A c \in Range(ys) : taken(tr, c) \in {floor(c), floor(c) + 1}
          /\ \A c, d \in Range(ys) :
                (taken(tr, c) = floor(c) + 1 /\ taken(tr, d) = floor(d))
                    => rem(c) >= rem(d)}

RECURSIVE SortLabels(_)
\* np.unique(y): the distinct labels in increasing order
SortLabels(set) ==
    IF set = {} THEN <<>>
    ELSE LET least == CHOOSE a \in set : \A b \in set \ {a} : StrLess(a, b)
         IN <<least>> \o SortLabels(set \ {least})

\* pipeline.fit(X_train, y_train), line 402: a tree grown without a depth
\* limit over one-hot columns separates any two distinct tuples, so a leaf
\* is a tuple of the train partition with the counts of its labels.
fit_pipeline(xs, ys) ==
    [classes |-> SortLabels(Range(ys)),
     leaves |-> [t \in Range(xs) |->
                   [c \in Range(ys) |->
                       Cardinality({i \in 1..Len(xs) : xs[i] = t /\ ys[i] = c})]]]

\* The value of a leaf for the class at position 1 of classes_ (Python
\* position, the second class), in units of 1/Scale.
LeafProb(model, t) ==
    LET counts == model.leaves[t]
        total == SeqSum([i \in 1..Len(model.classes) |-> counts[model.classes[i]]])
    IN (Scale * counts[model.classes[2]]) \div total

\* predict_proba(X)[:, 1] for one tuple: its own leaf when the tuple was in
\* the train partition; otherwise the one-hot row is all zero in the columns
\* of its unknown categories (handle_unknown='ignore') and ends in a leaf
\* that the shape of the tree decides: any leaf.
PredictProbs(model, t) ==
    IF t \in DOMAIN model.leaves THEN {LeafProb(model, t)}
    ELSE {LeafProb(model, u) : u \in DOMAIN model.leaves}

\* [:, 1] needs two classes: an IndexError otherwise.
HasSecondClass(model) == Len(model.classes) >= 2

\* cross_val_score(..., cv=3), line 424: StratifiedKFold refuses when no
\* class has three members.
n_splits == 3
CrossValAccepts(ys) ==
    Len(ys) >= n_splits /\ \E c \in Range(ys) : Count(ys, c) >= n_splits


\* ----------------------------------------------------- scaler recommendation
\* |zscore| > 3 for one cell of a column with moments (n, sm, sq); scipy's
\* zscore divides by the population deviation, and 0/0 is NaN (never > 3).
ZOutlier(x, n, sm, sq) ==
    Dev(n, sm, sq) > 0 /\ (n * x - sm) * (n * x - sm) > 9 * Dev(n, sm, sq)

\* str.lower() of the model names the callers pass
lower(model) ==
    CASE model = "SVM" -> "svm"
      [] model = "XGBoost" -> "xgboost"
      [] model = "CNN" -> "cnn"
      [] OTHER -> model

\* scaler_recommendation(df).get(model.lower(), 'StandardScaler'),
\* lines 184-220 and 504-505
scaler_recommendation(df, model) ==
    LET cols == NumericColumns(df)
        n == Len(df.rows)
        xs(c) == ColumnValues(df, c)
        outliers == {i \in 1..n : \E c \in Range(cols) :
                        ZOutlier(df.rows[i].val[c], n, SumOf(xs(c)), SumSq(xs(c)))}
        missing_values == \E i \in 1..n : \E c \in Range(cols) : df.rows[i].val[c] = NaN
    IN CASE lower(model) = "svm" ->
                IF (n > 0 /\ 100 * Cardinality(outliers) > 5 * n) \/ missing_values
                THEN "RobustScaler" ELSE "StandardScaler"
         [] lower(model) = "xgboost" -> "MinMaxScaler"
         [] lower(model) = "cnn" -> "MinMaxScaler + Sigmoid"
         [] OTHER -> "StandardScaler"

\* ------------------------------------------------------------- orchestrator
EmptyFrame == [columns |-> <<>>, dtypes |-> <<>>, rows |-> <<>>]

\* drop_nontrain, lines 177-182
drop_nontrain(table) == DropColumns(table, nontraining_fields)

\* select_lexical_features, lines 309-315
select_lexical_features(table) ==
    SelectColumns(table, <<"domain_name", "label">> \o SelectSeq(table.columns, IsLex))

\* The locals of one perform_eda call.  The variable labels is bound twice:
\* label_column is its value from line 373 (the label strings), labels its
\* value from line 479 on (the class of each row).
Locals(w) ==
    [w |-> w, combined_df |-> EmptyFrame, label_column |-> <<>>, labels |-> <<>>,
     X_categorical |-> <<>>, features |-> EmptyFrame,
     class_map |-> <<>>, err |-> NoErr, trace |-> <<>>, scaler_in |-> None,
     scaler_type |-> "", steps |-> <<>>, returned |-> FALSE]

Fail(c, type, by, stage) == [c EXCEPT !.err = Err(type, by, stage)]
Enter(c, stage) == [c EXCEPT !.trace = Append(@, stage)]

\* lines 319-362: the table the stages work on
load_tables(c0, input) ==
    LET c == Enter(c0, "load")
        self == c.w.self
    IN IF self.one_line_processing
       THEN [c EXCEPT !.combined_df = Get(self.single_record_df)]
       ELSE IF self.dga = "multiclass"
       THEN IF IsNone(input.malign)
            THEN Fail(c, "TypeError", "runtime", "load")
            ELSE IF ~{"domain_name", "label"} \subseteq Range(Get(input.malign).columns)
            THEN Fail(c, "KeyError", "runtime", "load")
            ELSE [c EXCEPT !.combined_df =
                     drop_nontrain(select_lexical_features(Get(input.malign)))]
       ELSE IF IsNone(input.benign) \/ IsNone(input.malign)
            THEN Fail(c, "AttributeError", "runtime", "load")
            ELSE IF self.dga = "binary"
                    /\ \E t \in {Get(input.benign), Get(input.malign)} :
                          ~{"domain_name", "label"} \subseteq Range(t.columns)
            THEN Fail(c, "KeyError", "runtime", "load")
            ELSE LET sel(t) == IF self.dga = "binary"
                               THEN select_lexical_features(t) ELSE t
                     benign_data == drop_nontrain(sel(Get(input.benign)))
                     malign_data == drop_nontrain(sel(Get(input.malign)))
                 IN IF NRows(benign_data) > 0 /\ NRows(malign_data) > 0
                    THEN IF benign_data.columns # malign_data.columns
                         THEN Fail(c, "ValueError", "runtime", "load")
                         ELSE [c EXCEPT !.combined_df = Concat(benign_data, malign_data)]
                    ELSE IF NRows(malign_data) > 0
                    THEN [c EXCEPT !.combined_df = malign_data]
                    ELSE Fail(c, "ValueError", "pipeline", "load")

\* The permutations of 1..n that leave the positions above MaxShuffle alone.
ShufflePermutations(n) ==
    LET m == IF n < MaxShuffle THEN n ELSE MaxShuffle
    IN {[i \in 1..n |-> IF i <= m THEN q[i] ELSE i] :
           q \in {q \in [1..m -> 1..m] : \A i, j \in 1..m : i # j => q[i] # q[j]}}

\* line 365: sample(frac=1) in a random order, then a fresh RangeIndex.
\* Executed in both modes.
shuffle(c0) ==
    IF Raised(c0.err) THEN {c0}
    ELSE LET c == Enter(c0, "shuffle")
             df == c.combined_df
             n == NRows(df)
         IN {[c EXCEPT !.combined_df =
                 Frame(df.columns, df.dtypes, [i \in 1..n |-> df.rows[p[i]].val])] :
             p \in ShufflePermutations(n)}

\* lines 371-375
extract_labels(c0) ==
    IF Raised(c0.err) THEN c0
    ELSE LET c == Enter(c0, "extract_labels")
         IN IF HasColumn(c.combined_df, "label")
            THEN [c EXCEPT !.label_column = Column(c.combined_df, "label")]
            ELSE Fail(c, "ValueError", "pipeline", "extract_labels")


RECURSIVE ProbVectors(_, _, _, _, _)
\* The dtree_prob columns predict_proba can yield for rows i..n: the rows of
\* the train partition get the value of their own leaf.
ProbVectors(model, xs, tr, i, n) ==
    IF i > n THEN {<<>>}
    ELSE LET here == IF i \in tr THEN {LeafProb(model, xs[i])}
                     ELSE PredictProbs(model, xs[i])
         IN {<<p>> \o rest : p \in here, rest \in ProbVectors(model, xs, tr, i + 1, n)}

\* lines 381-428: training mode of the categorical probability encoder
encode_training(c0) ==
    LET df == c0.combined_df
        n == NRows(df)
        ys == Values(c0.label_column)
    IN IF ~(Range(categorical_features) \subseteq Range(df.columns))
       THEN {Fail(c0, "KeyError", "runtime", "encoder")}
       ELSE LET xs == [i \in 1..n |-> CatTuple(df.rows[i].val)]
                c == [c0 EXCEPT !.X_categorical = xs]
            IN IF ~SplitAccepts(ys)
       THEN {Fail(c, "ValueError", "runtime", "encoder")}
       ELSE LET fitted(tr) == fit_pipeline(SelectIdx(xs, tr, 1), SelectIdx(ys, tr, 1))
                saved(tr) == [c EXCEPT !.w = save_model(
                                 [c.w EXCEPT !.self.model = Some(fitted(tr))])]
                with(tr, probs) ==
                    [saved(tr) EXCEPT !.combined_df =
                        SetColumn(df, "dtree_prob", "number", probs)]
             IN UNION {
                  IF ~HasSecondClass(fitted(tr))
                  THEN {Fail(saved(tr), "IndexError", "runtime", "encoder")}
                  ELSE {IF ~CrossValAccepts(ys)
                        THEN Fail(with(tr, probs), "ValueError", "runtime", "encoder")
                        ELSE [with(tr, probs) EXCEPT !.combined_df =
                                 DropColumns(@, Range(categorical_features))] :
                        probs \in ProbVectors(fitted(tr), xs, tr, 1, n)} :
                  tr \in TrainPartitions(ys)}

\* lines 431-440: serving mode of the categorical probability encoder
encode_serving(c) ==
    LET w1 == load_model(c.w)
        c1 == [c EXCEPT !.w = w1]
        record == Get(w1.self.single_record_df)
    IN IF IsNone(w1.self.model)
       THEN {Fail(c1, "ValueError", "pipeline", "encoder")}
       ELSE IF ~(Range(categorical_features) \subseteq Range(record.columns))
       THEN {Fail(c1, "KeyError", "runtime", "encoder")}
       ELSE IF ~HasSecondClass(Get(w1.self.model))
       THEN {Fail(c1, "IndexError", "runtime", "encoder")}
       ELSE {[c1 EXCEPT !.combined_df =
                 SetColumn(@, "dtree_prob", "number",
                           [i \in 1..NRows(c1.combined_df) |-> p])] :
             p \in PredictProbs(Get(w1.self.model), CatTuple(record.rows[1].val))}

\* lines 377-440: only under the generic policy
encoder(c0) ==
    IF Raised(c0.err) \/ c0.w.self.dga \in {"binary", "multiclass"} THEN {c0}
    ELSE IF ~c0.w.self.one_line_processing
    THEN encode_training(Enter(c0, "encoder"))
    ELSE encode_serving(Enter(c0, "encoder"))

\* lines 442-480: class map, integer labels, the feature table
label_mapper(c0) ==
    IF Raised(c0.err) THEN c0
    ELSE LET c == Enter(c0, "class_map")
             unique_labels == Unique(Values(Column(c.combined_df, "label")))
             built == build_class_map(c.w.self.dga, unique_labels)
         IN IF Raised(built.err) THEN [c EXCEPT !.err = built.err]
            ELSE [Enter(c, "map_labels") EXCEPT
                     !.class_map = built.class_map,
                     !.labels = map_labels(built.class_map,
                                           Column(c.combined_df, "label")),
                     !.features = DropColumns(c.combined_df, {"label"})]

\* lines 490-493: bool columns to float64 (no temporal column is generated)
bool_to_float(df) ==
    [columns |-> df.columns,
     dtypes |-> [col \in Range(df.columns) |->
                   IF df.dtypes[col] = "bool" THEN "number" ELSE df.dtypes[col]],
     rows |-> [i \in 1..Len(df.rows) |->
                 [idx |-> df.rows[i].idx,
                  val |-> [col \in Range(df.columns) |->
                             IF df.dtypes[col] = "bool"
                             THEN (IF df.rows[i].val[col] THEN Scale ELSE 0)
                             ELSE df.rows[i].val[col]]]]]

\* line 498: fillna(-1)
fillna(df) ==
    [df EXCEPT !.rows =
        [i \in 1..Len(df.rows) |->
            [idx |-> df.rows[i].idx,
             val |-> [col \in Range(df.columns) |->
                        IF df.dtypes[col] = "number" /\ df.rows[i].val[col] = NaN
                        THEN -Scale ELSE df.rows[i].val[col]]]]]

\* lines 483-498
normalize(c0) ==
    IF Raised(c0.err) THEN c0
    ELSE LET c == Enter(c0, "dtype")
             converted == bool_to_float(c.features)
         IN IF converted.columns = <<>>
            THEN Fail(c, "IndexError", "runtime", "drop_first")
            ELSE [Enter(Enter(c, "drop_first"), "fillna") EXCEPT
                     !.features = fillna(DropColumns(converted, {converted.columns[1]}))]

\* line 500
std_multiplier == 8

outlier_filter(c0) ==
    IF Raised(c0.err) THEN c0
    ELSE LET c == Enter(c0, "remove_outliers")
             r == remove_outliers(c.w, c.features, c.labels, std_multiplier)
         IN [c EXCEPT !.w = r.w, !.features = r.features, !.labels = r.labels,
                      !.err = r.err, !.steps = r.steps]

\* lines 502-508
scaler_stage(c0, model, scaling) ==
    IF Raised(c0.err) \/ ~scaling THEN c0
    ELSE LET c == Enter(c0, "apply_scaling")
             scaler_type == scaler_recommendation(c.features, model)
             r == apply_scaling(c.w, c.features, scaler_type)
         IN [c EXCEPT !.w = r.w, !.features = r.df, !.err = r.err,
                      !.scaler_in = r.scaler_in, !.scaler_type = scaler_type]

\* lines 510-518: torch.tensor(features.values) takes numeric columns only
emit(c0) ==
    IF Raised(c0.err) THEN c0
    ELSE LET c == Enter(c0, "emit")
         IN IF \E col \in Range(c.features.columns) : c.features.dtypes[col] # "number"
            THEN Fail(c, "TypeError", "runtime", "emit")
            ELSE [c EXCEPT !.returned = TRUE]

\* perform_eda, lines 318-518: every outcome one call can have
perform_eda(w, input, model, scaling) ==
    {emit(scaler_stage(outlier_filter(normalize(label_mapper(c2))), model, scaling)) :
        c2 \in UNION {encoder(extract_labels(c1)) :
                        c1 \in shuffle(load_tables(Locals(w), input))}}


\* ------------------------------------------------------------------ inputs
\* The labeling-policy flag: 'binary', 'multiclass', or any other value
\* (the default is the string 'False', line 61).
Policies == {"binary", "multiclass", "False"}

\* A source file of n rows labelled lab, then the rows of tail: row i has
\* lexical length (i * step) mod (MaxVal + 1) and category i mod 2.
SourceFile(lab, n, step, tail) ==
    RawFrame([i \in 1..n |-> RawRow(lab, (i * step) % (MaxVal + 1), i % 2)]
             \o [i \in 1..Len(tail) |-> RawRow(tail[i], i % (MaxVal + 1), i % 2)])

BenignFiles ==
    {Some(SourceFile(L_benign_x, n, 1, <<>>)) : n \in {0, MaxFileRows}}

MalignLabels(dga) ==
    IF dga = "binary" THEN {L_dga_foo, L_benign}
    ELSE IF dga = "multiclass" THEN {L_dga_bar_v, L_be}
    ELSE {L_malware_a, L_unknown}

MalignTails(dga) ==
    IF dga \in {"binary", "multiclass"} THEN {<<>>} ELSE {<<>>, <<L_unknown>>}

MalignSteps(dga) == IF dga \in {"binary", "multiclass"} THEN {0, 1} ELSE {1}

MalignFiles(dga) ==
    {Some(SourceFile(lab, n, step, tail)) :
        lab \in MalignLabels(dga), n \in {1, MaxFileRows}, step \in MalignSteps(dga),
        tail \in MalignTails(dga)}

\* Under the generic policy, a malign file of two malicious families and an
\* empty benign file.
TwoFamilies(dga) ==
    IF dga \in {"binary", "multiclass"} THEN {}
    ELSE {[benign |-> Some(SourceFile(L_benign_x, 0, 1, <<>>)),
           malign |-> Some(SourceFile(L_malware_a, MaxFileRows, 1,
                                      [i \in 1..MaxFileRows |-> L_misp_b]))]}

\* What the two dataset paths of a training instance hold when it runs; a
\* path that was not given is None.
TrainingInputs(dga) ==
    [benign : BenignFiles, malign : MalignFiles(dga)]
    \cup TwoFamilies(dga)
    \cup {[benign |-> None, malign |-> m] : m \in {Some(SourceFile(L_dga_bar_v, 1, 1, <<>>))}}
    \cup {[benign |-> b, malign |-> None] : b \in {Some(SourceFile(L_benign_x, 1, 1, <<>>))}}

\* The columns of the training table of a policy (after lines 330-348).
TrainColumns(dga) ==
    IF dga \in {"binary", "multiclass"}
    THEN select_lexical_features(RawFrame(<<>>)).columns
    ELSE drop_nontrain(RawFrame(<<>>)).columns

\* pd.DataFrame([input_data]), line 66: one row, the fields of the record
\* in their order.
SingleRecord(cols, lab, x, c) ==
    SelectColumns(RawFrame(<<RawRow(lab, x, c)>>), cols)

\* The raw record, a record shaped like the training table of either kind
\* of policy, and one that carries no label.
RecordShapes(dga) ==
    {RawColumns, TrainColumns("False"), TrainColumns("binary"),
     SelectSeq(TrainColumns(dga), LAMBDA col : col # "label")}

SingleRecords(dga) ==
    {SingleRecord(cols, L_benign_x, x, x % 2) :
        cols \in RecordShapes(dga), x \in {0, MaxVal}}

\* The model name and the scaling flag of a perform_eda call.
RunOptions ==
    {[scaling |-> FALSE, model |-> "svm"]}
    \cup [scaling : {TRUE}, model : {"svm", "CNN"}]

NoInput == [benign |-> None, malign |-> None]
NoOptions == [scaling |-> FALSE, model |-> ""]

\* ------------------------------------------------------------------- state
VARIABLES
    self,     \* the FeatureEngineeringCLI instance in use
    disk,     \* the artifact files under models/: scaler, outliers, model
    writes,   \* joblib.dump calls per artifact file: since the process
              \* started (process) and on the instance in use (instance)
    calls,    \* operations started since the process started
    pc,       \* "idle", or "called" at the return of an operation
    last      \* the operation at its return: name, inputs, locals

vars == <<self, disk, writes, calls, pc, last>>

World == [self |-> self, disk |-> disk, writes |-> writes]

NoWrites == [scaler |-> 0, outliers |-> 0, model |-> 0]

\* __init__, lines 61-110
new_instance(one_line_processing, dga, input_data) ==
    [one_line_processing |-> one_line_processing,
     dga |-> dga,
     single_record_df |-> IF one_line_processing THEN Some(input_data) ELSE None,
     scaler |-> None,
     outliers |-> None,
     scaler_saved |-> FALSE,
     outliers_saved |-> FALSE,
     model |-> None]

Instances ==
    {new_instance(FALSE, dga, None) : dga \in Policies}
    \cup UNION {{new_instance(TRUE, dga, r) : r \in SingleRecords(dga)} : dga \in Policies}

\* The world with a freshly constructed instance in use.
Constructed(w, inst) == [w EXCEPT !.self = inst, !.writes.instance = NoWrites]

\* The record of an operation: the world is in self, disk and writes.
Op(name, input, options, out) ==
    [op |-> name, input |-> input, options |-> options,
     out |-> [combined_df |-> out.combined_df, label_column |-> out.label_column,
              labels |-> out.labels, X_categorical |-> out.X_categorical,
              features |-> out.features, class_map |-> out.class_map,
              err |-> out.err, trace |-> out.trace, scaler_in |-> out.scaler_in,
              scaler_type |-> out.scaler_type, steps |-> out.steps,
              returned |-> out.returned]]

InputsOf(inst) ==
    IF inst.one_line_processing THEN {NoInput} ELSE TrainingInputs(inst.dga)

Init ==
    /\ self \in Instances
    /\ disk = [scaler |-> None, outliers |-> None, model |-> None]
    /\ writes = [process |-> NoWrites, instance |-> NoWrites]
    /\ calls = 0
    /\ pc = "idle"
    /\ last = Op("", NoInput, NoOptions,
                 Locals([self |-> self, disk |-> disk, writes |-> writes]))

Commit(name, input, options, out) ==
    /\ self' = out.w.self
    /\ disk' = out.w.disk
    /\ writes' = out.w.writes
    /\ calls' = calls + 1
    /\ pc' = "called"
    /\ last' = Op(name, input, options, out)

\* lines 537-571: the dataset record and its preview.  In training the
\* preview is cut by train_test_split(test_size=0.2), which refuses a table
\* that leaves no row to train on (sklearn).
display(c0) ==
    IF Raised(c0.err) THEN c0
    ELSE LET c == Enter(c0, "display")
         IN IF ~c.w.self.one_line_processing /\ NTrain(NRows(c.features)) <= 0
            THEN Fail(c, "ValueError", "runtime", "display")
            ELSE c

\* NDF, lines 532-571: a fresh instance, perform_eda on it, the preview.
NDFOver(policies) ==
    /\ pc = "idle" /\ calls < MaxCalls
    /\ \E inst \in {i \in Instances : i.dga \in policies}, options \in RunOptions :
       \E input \in InputsOf(inst) :
       \E out \in perform_eda(Constructed(World, inst), input,
                              options.model, options.scaling) :
          Commit("NDF", input, options, display(out))

NDF == NDFOver(Policies)

\* perform_eda called again on the instance in use, lines 318-518
PerformEda ==
    /\ pc = "idle" /\ calls < MaxCalls
    /\ \E options \in RunOptions :
       \E input \in InputsOf(self) :
       \E out \in perform_eda(World, input, options.model, options.scaling) :
          Commit("perform_eda", input, options, out)

\* save_borders called on the instance in use, lines 136-150
SaveBorders ==
    /\ pc = "idle" /\ calls < MaxCalls
    /\ Commit("save_borders", NoInput, NoOptions, Locals(save_borders(World)))

\* The operation returns; its locals are gone.
Return ==
    /\ pc = "called" /\ calls < MaxCalls
    /\ pc' = "idle"
    /\ last' = Op("", NoInput, NoOptions, Locals(World))
    /\ UNCHANGED <<self, disk, writes, calls>>

Next == NDF \/ PerformEda \/ SaveBorders \/ Return

Spec == Init /\ [][Next]_vars

\* A process that only ever uses the multiclass policy.
InitMulticlass == Init /\ self.dga = "multiclass"
NDFMulticlass == NDFOver({"multiclass"})
NextMulticlass == NDFMulticlass \/ PerformEda \/ SaveBorders \/ Return
SpecMulticlass == InitMulticlass /\ [][NextMulticlass]_vars

\* ------------------------------------------------- the stages called alone
\* Feature tables of two numeric columns and one text column, with the
\* label vector on the same index.
StageRows(n) ==
    [1..n -> [lex_len : {x * Scale : x \in 0..MaxVal},
              lex_tld_hash : {0, MaxVal * Scale},
              tls_version : {"v"}]]

StageFrame(vals) ==
    Frame(<<"lex_len", "tls_version", "lex_tld_hash">>,
          [c \in {"lex_len", "tls_version", "lex_tld_hash"} |->
              IF c = "tls_version" THEN "object" ELSE "number"],
          vals)

StageTables == {StageFrame(vals) : vals \in UNION {StageRows(n) : n \in 1..MaxFileRows}}

StageLabels(features) ==
    [i \in 1..NRows(features) |-> [idx |-> features.rows[i].idx, val |-> i % 2]]

\* std_multiplier as a caller of remove_outliers may pass it (default 8).
Multipliers == {1, std_multiplier}

StageLocals(w, features, labels, err, steps, scaler_in, scaler_type) ==
    [Locals(w) EXCEPT !.features = features, !.labels = labels, !.err = err,
                      !.steps = steps, !.scaler_in = scaler_in,
                      !.scaler_type = scaler_type]

InitStage ==
    /\ self \in {new_instance(FALSE, dga, None) : dga \in Policies}
    /\ disk = [scaler |-> None, outliers |-> None, model |-> None]
    /\ writes = [process |-> NoWrites, instance |-> NoWrites]
    /\ calls = 0
    /\ pc = "idle"
    /\ last = Op("", NoInput, NoOptions,
                 Locals([self |-> self, disk |-> disk, writes |-> writes]))

\* remove_outliers(features, labels, std_multiplier) on a training instance
RemoveOutliers ==
    /\ pc = "idle" /\ calls < MaxCalls
    /\ \E features \in StageTables, k \in Multipliers :
          LET labels == StageLabels(features)
              r == remove_outliers(World, features, labels, k)
          IN Commit("remove_outliers",
                    [features |-> features, labels |-> labels, k |-> k],
                    NoOptions,
                    StageLocals(r.w, r.features, r.labels, r.err, r.steps, None, ""))

SpecOutliers == InitStage /\ [][RemoveOutliers]_vars

\* The one-row tables: what a serving instance hands to remove_outliers.
RecordTables == {t \in StageTables : NRows(t) = 1}

\* Then remove_outliers on a fresh serving instance, over a one-row table:
\* the thresholds are those the training call persisted (lines 284-285).
ServeOutliers ==
    /\ pc = "called" /\ last.op = "remove_outliers" /\ ~Raised(last.out.err)
    /\ \E features \in RecordTables :
          LET labels == StageLabels(features)
              serving == new_instance(TRUE, self.dga, features)
              r == remove_outliers(Constructed(World, serving), features, labels,
                                   std_multiplier)
          IN Commit("serve_outliers",
                    [features |-> features, labels |-> labels, k |-> std_multiplier],
                    NoOptions,
                    StageLocals(r.w, r.features, r.labels, r.err, r.steps, None, ""))

NextServeOutliers == RemoveOutliers \/ ServeOutliers
SpecServeOutliers == InitStage /\ [][NextServeOutliers]_vars

\* apply_scaling(df, scaler_type) on a training instance
ApplyScaling ==
    /\ pc = "idle" /\ calls < MaxCalls
    /\ \E df \in StageTables, scaler_type \in ScalerTypes \cup {"Normalizer"} :
          LET r == apply_scaling(World, df, scaler_type)
          IN Commit("apply_scaling",
                    [df |-> df, scaler_type |-> scaler_type, fitted |-> EmptyFrame],
                    NoOptions,
                    StageLocals(r.w, r.df, <<>>, r.err, <<>>, r.scaler_in, scaler_type))

\* Then apply_scaling on a fresh serving instance, over the same df.
ReplayScaling ==
    /\ pc = "called" /\ last.op = "apply_scaling" /\ ~Raised(last.out.err)
    /\ \E scaler_type \in ScalerTypes :
          LET serving == new_instance(TRUE, self.dga, last.input.df)
              r == apply_scaling(Constructed(World, serving), last.input.df, scaler_type)
          IN Commit("replay_scaling",
                    [df |-> last.input.df, scaler_type |-> last.input.scaler_type,
                     fitted |-> last.out.features],
                    NoOptions,
                    StageLocals(r.w, r.df, <<>>, r.err, <<>>, r.scaler_in, scaler_type))

NextScaling == ApplyScaling \/ ReplayScaling
SpecScaling == InitStage /\ [][NextScaling]_vars

\* ================================================================ properties
\* What a finished perform_eda call left behind is in last.out; the instance,
\* the artifact files and the write counts are in self, disk and writes.
Ran == pc = "called" /\ last.op \in {"NDF", "perform_eda"}
Serving == self.one_line_processing
Training == ~self.one_line_processing
Lexical == self.dga \in {"binary", "multiclass"}
Reached(stage) == stage \in Range(last.out.trace)

\* ------------------------------------------------------------------------ C1
\* C1: under the generic policy, the columns a serving run hands to the
\* scaler are the columns the scaler was fitted on in training; the six
\* categorical hash columns are absent from both.
C1_ColumnParity ==
    (/\ Ran /\ Serving /\ ~Lexical
     /\ Get(self.single_record_df).columns = TrainColumns("False")
     /\ ~IsNone(last.out.scaler_in)
     /\ ~IsNone(disk.scaler)
     /\ "dtree_prob" \in Range(Get(disk.scaler).columns))
    => /\ Get(last.out.scaler_in) = Get(disk.scaler).columns
       /\ Range(categorical_features) \cap Range(Get(last.out.scaler_in)) = {}

\* ------------------------------------------------------------------------ C2
\* The bounds of a remove_outliers call, from the table it was given.
BoundsOfCall == ComputeOutliers(last.input.features, last.input.k)

RemainingWithinBounds ==
    \A i \in 1..NRows(last.out.features) :
        \A c \in Range(BoundsOfCall.columns) :
            WithinBounds(last.out.features.rows[i].val[c], BoundsOfCall.bounds[c])

OutliersReturned ==
    pc = "called" /\ last.op = "remove_outliers" /\ ~Raised(last.out.err)

\* C2 (amended): when remove_outliers returns in training mode for a table
\* of at least two rows, every remaining row lies within
\* [mean - k * std, mean + k * std] of every bounded column, the bounds
\* being those computed from the table before any row was dropped.
C2_WithinBoundsFromTwoRows ==
    (OutliersReturned /\ NRows(last.input.features) >= 2) => RemainingWithinBounds

\* A table of three rows lost a row and kept the others.
C2_Witness ==
    /\ OutliersReturned
    /\ NRows(last.input.features) = 3
    /\ NRows(last.out.features) \in {1, 2}
    /\ Len(BoundsOfCall.columns) = 2

\* C2 as stated: the same for every table.
C2_WithinBoundsAlways == OutliersReturned => RemainingWithinBounds

\* ------------------------------------------------------------------------ C3
\* C3: for each of the four scaler types, applying the persisted scaler in
\* serving mode to the table it was fitted on gives the values the training
\* call gave.
C3_ScalingRoundTrip ==
    (pc = "called" /\ last.op = "replay_scaling")
    => /\ ~Raised(last.out.err)
       /\ last.out.features = last.input.fitted

\* ------------------------------------------------------------------------ C4
ArtifactStages ==
    {[slot |-> "scaler", stage |-> "apply_scaling"],
     [slot |-> "outliers", stage |-> "remove_outliers"],
     [slot |-> "model", stage |-> "encoder"]}

\* C4: a serving run that reaches a stage whose artifact was never persisted
\* ends there with the configuration error the pipeline raises itself, and
\* returns nothing.
C4_MissingArtifactAborts ==
    (Ran /\ Serving)
    => \A a \in ArtifactStages :
          (Reached(a.stage) /\ IsNone(disk[a.slot]))
          => /\ last.out.err = Err("ValueError", "pipeline", a.stage)
             /\ ~last.out.returned

\* ------------------------------------------------------------------------ C5
Mapped(label) == label \in DOMAIN generic_class_map(<<label>>).class_map

WithoutUnmapped(file) ==
    IF IsNone(file) THEN file
    ELSE Some(RawFrame(SelectSeq(Values(Get(file).rows),
                                 LAMBDA val : Mapped(val.label))))

HasUnmapped(file) ==
    ~IsNone(file) /\ \E i \in 1..NRows(Get(file)) : ~Mapped(Get(file).rows[i].val["label"])

\* The same call on the same files without their unmapped rows gets through
\* label mapping, whichever way the shuffle and the split fall.
MappedRowsPass ==
    \A out \in perform_eda([self |-> new_instance(FALSE, self.dga, None),
                            disk |-> [scaler |-> None, outliers |-> None, model |-> None],
                            writes |-> [process |-> NoWrites, instance |-> NoWrites]],
                           [benign |-> WithoutUnmapped(last.input.benign),
                            malign |-> WithoutUnmapped(last.input.malign)],
                           last.options.model, last.options.scaling) :
        "map_labels" \in Range(out.trace)

\* C5: under the generic policy, a training table with a row whose label
\* matches no mapped prefix still gets through label mapping (the stratified
\* split included), and that row carries -1 in the returned label vector.
C5_UnmappedSoftFail ==
    (/\ Ran /\ Training /\ ~Lexical
     /\ HasUnmapped(last.input.benign) \/ HasUnmapped(last.input.malign)
     /\ MappedRowsPass)
    => /\ Reached("map_labels")
       /\ last.out.returned
          => \A i \in 1..NRows(last.out.combined_df) :
                ~Mapped(last.out.combined_df.rows[i].val["label"])
                => \E j \in 1..Len(last.out.labels) :
                      /\ last.out.labels[j].idx = last.out.combined_df.rows[i].idx
                      /\ last.out.labels[j].val = -1

\* ------------------------------------------------------------------------ C6
\* C6: a serving run never fails for want of a label field in its record,
\* and the class map it returns is empty.
C6_ServingSkipsLabels ==
    (Ran /\ Serving)
    => /\ ~HasColumn(Get(self.single_record_df), "label")
          => last.out.err.stage # "extract_labels"
       /\ last.out.returned => DOMAIN last.out.class_map = {}

\* ------------------------------------------------------------------------ C7
\* C7: under the binary policy the class map is built without error for any
\* labels, one without a ':' included: benign* -> 0, dga* -> 1, others absent.
C7_BinaryClassMapTotal ==
    (Ran /\ self.dga = "binary" /\ Reached("class_map"))
    => /\ last.out.err.stage # "class_map"
       /\ \A i \in 1..NRows(last.out.combined_df) :
             LET label == last.out.combined_df.rows[i].val["label"]
             IN IF StartsWith(label, P_benign)
                THEN label \in DOMAIN last.out.class_map /\ last.out.class_map[label] = 0
                ELSE IF StartsWith(label, P_dga)
                THEN label \in DOMAIN last.out.class_map /\ last.out.class_map[label] = 1
                ELSE label \notin DOMAIN last.out.class_map

\* ------------------------------------------------------------------------ C8
\* C8: under the binary and multiclass policies, in training and in serving,
\* a completed run worked on a table of domain_name, label and lex* columns
\* only, and every feature name it returns begins with lex.
C8_LexicalOnly ==
    (Ran /\ Lexical /\ last.out.returned)
    => /\ \A col \in Range(last.out.combined_df.columns) :
             col \in {"domain_name", "label"} \/ IsLex(col)
       /\ \A col \in Range(last.out.features.columns) : IsLex(col)

\* ------------------------------------------------------------------------ C9
\* C9 (amended): one FeatureEngineeringCLI instance writes the scaler file
\* at most once and the outlier-bounds file at most once, however often
\* save_borders is called on it.
C9_SaveOncePerInstance ==
    writes.instance.scaler <= 1 /\ writes.instance.outliers <= 1

\* A second run on the same training instance fitted a scaler again and
\* wrote nothing.
C9_Witness ==
    /\ Ran /\ Training /\ last.op = "perform_eda" /\ calls = 2
    /\ Reached("apply_scaling") /\ ~Raised(last.out.err)
    /\ writes.instance.scaler = 1 /\ writes.instance.outliers = 1

\* C9 as stated: at most one write of each file in the lifetime of a process.
C9_SaveOncePerProcess ==
    writes.process.scaler <= 1 /\ writes.process.outliers <= 1

\* ----------------------------------------------------------------------- C10
\* C10: when a training run ends, a second one on the same instance
\* included, the files hold the scaler, the bounds and the model that run
\* computed.
C10_TrainingOverwrites ==
    (Ran /\ Training)
    => /\ Reached("remove_outliers") => disk.outliers = self.outliers
       /\ (Reached("apply_scaling") /\ last.out.err.stage # "apply_scaling")
          => disk.scaler = self.scaler
       /\ (~Lexical /\ Reached("class_map")) => disk.model = self.model

\* ----------------------------------------------------------------------- C11
\* The place of a step in the order the control flow is described in: load
\* and column selection, shuffle, label mapper, categorical probability
\* encoder, dtype normalization, outlier filter, scaler applier, emit.
StageRank(stage) ==
    CASE stage = "load" -> 1
      [] stage = "shuffle" -> 2
      [] stage \in {"extract_labels", "class_map", "map_labels"} -> 3
      [] stage = "encoder" -> 4
      [] stage \in {"dtype", "drop_first", "fillna"} -> 5
      [] stage = "remove_outliers" -> 6
      [] stage = "apply_scaling" -> 7
      [] stage = "emit" -> 8
      [] OTHER -> 9

\* C11: the steps of a run are taken in the described order, the label
\* mapper being through before the categorical probability encoder starts,
\* and a serving run does not shuffle.
C11_StageOrder ==
    Ran => /\ \A i, j \in 1..Len(last.out.trace) :
                i < j => StageRank(last.out.trace[i]) <= StageRank(last.out.trace[j])
           /\ Serving => ~Reached("shuffle")

\* ----------------------------------------------------------------------- C12
\* The share of a leaf's rows whose label the class map sends to class 1,
\* in units of 1/Scale.
ClassOneProb(model, class_map, t) ==
    LET counts == model.leaves[t]
        of(keep(_)) ==
            SeqSum([i \in 1..Len(model.classes) |->
                      IF keep(model.classes[i]) THEN counts[model.classes[i]] ELSE 0])
        one(label) == label \in DOMAIN class_map /\ class_map[label] = 1
        any(label) == TRUE
    IN (Scale * of(one)) \div of(any)

EncodedRun == Ran /\ Training /\ ~Lexical /\ Reached("map_labels")

\* C12: in a generic-policy training run, the dtree_prob of every row is
\* the probability the fitted classifier gives to class 1 of the class map
\* for the row's categorical values, whatever raw labels the data holds.
C12_DtreeProbIsClassOne ==
    EncodedRun
    => \A i \in 1..NRows(last.out.combined_df) :
          LET model == Get(self.model)
              t == last.out.X_categorical[i]
              p == last.out.combined_df.rows[i].val["dtree_prob"]
              leaves == IF t \in DOMAIN model.leaves THEN {t} ELSE DOMAIN model.leaves
          IN \E u \in leaves : p = ClassOneProb(model, last.out.class_map, u)

\* ----------------------------------------------------------------------- C13
OutliersServed == pc = "called" /\ last.op = "serve_outliers"

\* The record's value in a column the persisted thresholds cover.
RecordValue(c) == last.input.features.rows[1].val[c]
PersistedColumns ==
    {c \in Range(Get(disk.outliers).columns) : HasColumn(last.input.features, c)}

RecordOutside ==
    \E c \in PersistedColumns :
        \/ BelowLower(RecordValue(c), Get(disk.outliers).bounds[c])
        \/ AboveUpper(RecordValue(c), Get(disk.outliers).bounds[c])

RecordInside ==
    \A c \in PersistedColumns :
        WithinBounds(RecordValue(c), Get(disk.outliers).bounds[c])

\* C13: in serving mode remove_outliers returns without raising; a one-row
\* table with a value strictly outside the persisted bounds of some column
\* comes back with no row and no label, and one whose values all lie within
\* the bounds, the bounds themselves included, comes back as it was.
C13_SingleRecordDrop ==
    OutliersServed
    => /\ ~Raised(last.out.err)
       /\ RecordOutside
          => NRows(last.out.features) = 0 /\ Len(last.out.labels) = 0
       /\ RecordInside
          => /\ last.out.features = last.input.features
             /\ last.out.labels = last.input.labels

\* A record above the upper threshold of one column was dropped.
C13_Witness ==
    /\ OutliersServed /\ ~Raised(last.out.err)
    /\ \E c \in PersistedColumns :
          AboveUpper(RecordValue(c), Get(disk.outliers).bounds[c])
    /\ NRows(last.out.features) = 0 /\ Len(last.out.labels) = 0

\* ----------------------------------------------------------------------- C14
\* The index labels of a table's rows or of a series, in order.
IndexOf(rows) == [i \in 1..Len(rows) |-> rows[i].idx]

\* The row of a table that carries an index label.
RowAt(df, idx) == CHOOSE r \in Range(df.rows) : r.idx = idx

\* The table of line 480 with its cells as lines 490-498 leave them.
NormalizedRecords ==
    fillna(bool_to_float(DropColumns(last.out.combined_df, {"label"})))

\* C14: from label mapping on, the feature table and the label vector hold
\* the same index labels in the same order: wherever the run stopped, after
\* each column of outlier removal and after scaling; the label at each
\* position is the class of the record with that index label, and the
\* returned feature row holds that record's values.
C14_FeaturesLabelsAligned ==
    (Ran /\ Reached("map_labels"))
    => /\ IndexOf(last.out.features.rows) = IndexOf(last.out.labels)
       /\ \A k \in 1..Len(last.out.steps) :
             last.out.steps[k].features = last.out.steps[k].labels
       /\ \A i \in 1..Len(last.out.labels) :
             LET idx == last.out.labels[i].idx
                 label == RowAt(last.out.combined_df, idx).val["label"]
             IN /\ idx \in Range(IndexOf(last.out.combined_df.rows))
                /\ last.out.labels[i].val =
                      IF label \in DOMAIN last.out.class_map
                      THEN last.out.class_map[label] ELSE -1
       /\ (last.out.returned /\ ~Reached("apply_scaling"))
          => \A i \in 1..NRows(last.out.features) :
                \A col \in Range(last.out.features.columns) :
                    last.out.features.rows[i].val[col] =
                        RowAt(NormalizedRecords, last.out.features.rows[i].idx).val[col]

\* A training run of several rows went through outlier removal and scaling
\* and returned.
C14_Witness ==
    /\ Ran /\ Training /\ last.out.returned
    /\ Reached("apply_scaling")
    /\ Len(last.out.steps) >= 2
    /\ NRows(last.out.features) >= 2
    /\ Len(last.out.labels) = NRows(last.out.features)

=============================================================================
